---- MODULE Spec2Model ----
(***************************************************************************)
(* Model of the authentication, registration and reservation subsystem of *)
(* the book API: the users, books and reservations collections, the JWT   *)
(* middleware (require_jwt, require_admin), the /auth routes and the      *)
(* /books/<id>/reservations routes.                                       *)
(*                                                                         *)
(* Spec      every request handler runs to completion as one action.      *)
(* SpecAuth  the same handlers of the protected routes, under every       *)
(*           shape of Authorization header and token.                     *)
(* SpecRace  the handlers of POST /books/<id>/reservations and            *)
(*           POST /auth/register run concurrently, one database call per  *)
(*           step.                                                         *)
(***************************************************************************)
EXTENDS Integers, Sequences, FiniteSets, TLC

\* ------------------------------------------------------------------ bounds
MaxUsers == 3          \* documents in the users collection
MaxReservations == 2   \* documents in the reservations collection
MaxTime == 48          \* the clock stops here (hours)
SessionHours == 8      \* granularity of the clock of a client session (hours)
TickHours == 24        \* granularity of the clock (hours)

\* ------------------------------------------------------- program constants
TokenTTL == 24         \* hours=24 in login_user
HTTP_OK == 200
HTTP_CREATED == 201
HTTP_NO_CONTENT == 204
HTTP_BAD_REQUEST == 400
HTTP_UNAUTHORIZED == 401
HTTP_FORBIDDEN == 403
HTTP_NOT_FOUND == 404
HTTP_CONFLICT == 409
HTTP_SERVICE_UNAVAILABLE == 503
HTTP_SERVER_ERROR == 500

\* --------------------------------------------------------------- values
\* An ObjectId is a positive integer; 0 stands for "no id".
\* The string form of an id (a URL segment, the sub claim of a token) is a
\* record: a 24-hex string that converts to an ObjectId, or one that does not.
IdStr(oid) == [kind |-> "oid", oid |-> oid]          \* str(ObjectId)
MalformedIdStr == [kind |-> "malformed", oid |-> 0]  \* e.g. "zz"
EmptyIdStr == [kind |-> "empty", oid |-> 0]          \* ""
AbsentIdStr == [kind |-> "absent", oid |-> 0]        \* key not present

\* ObjectId(s): raises InvalidId unless s is a well-formed id string.
ObjectIdValid(s) == s.kind = "oid"
ObjectId(s) == s.oid

\* An email address is local@domain.
Email(l, d) == [local |-> l, domain |-> d]
NoEmail == Email("", "")                             \* None or ""
NoPassword == ""                                      \* None or ""

\* str.lower() on the words the model uses
Lower(w) ==
    CASE w = "X.COM" -> "x.com"
      [] w = "Bearer" -> "bearer"
      [] w = "BEARER" -> "bearer"
      [] w = "Token" -> "token"
      [] OTHER -> w

\* email_validator.validate_email(email, check_deliverability=False):
\* the address needs a local part without whitespace and a domain with a
\* top-level domain; .normalized lower-cases the domain and keeps the
\* local part as it is.
EmailSyntaxValid(e) ==
    /\ e.local \in {"a", "b", "s", "admin"}
    /\ Lower(e.domain) \in {"x.com"}
IdentityEmail(e) == e
validate_email(e) == Email(e.local, Lower(e.domain))

\* bcrypt: a hash is the salt and the digest of (salt, password); the digest
\* is kept symbolic as the password it was computed from.
NoHash == [salt |-> 0, digest |-> ""]                 \* field not present
StorePasswordAsIs(p, salt) == [salt |-> 0, digest |-> p]
generate_password_hash(p, salt) == [salt |-> salt, digest |-> p]
check_password_hash(h, p) == generate_password_hash(p, h.salt) = h
Salts == {1}

NoRole == "None"                                      \* field not present

\* A document of the users collection.
UserDoc(id, email, pw, pwh, role) ==
    [_id |-> id, email |-> email, password |-> pw,
     password_hash |-> pwh, role |-> role]
NoUser == UserDoc(0, NoEmail, NoHash, NoHash, NoRole) \* Python None

\* A document of the reservations collection.
ReservationDoc(id, book, user, state) ==
    [_id |-> id, book_id |-> book, user_id |-> user, state |-> state]
NoReservation == ReservationDoc(0, 0, 0, "")          \* Python None

\* A JSON web token: whether the string has the three-segment structure, the
\* key its signature was made with, and its claims.
NoTime == 0 - 1                                       \* claim not present
Token(key, sub, iat, exp, role) ==
    [wellformed |-> TRUE, key |-> key, sub |-> sub, iat |-> iat,
     exp |-> exp, role |-> role]
GarbageToken ==
    [wellformed |-> FALSE, key |-> "", sub |-> AbsentIdStr, iat |-> NoTime,
     exp |-> NoTime, role |-> NoRole]
NoToken == GarbageToken

\* A response: status code, the key of the text field of the JSON body
\* ("error", "message" or "none"), its text, and the payload.
NoData == [id |-> 0, email |-> NoEmail, user_id |-> 0, book_id |-> 0,
           state |-> "", token |-> NoToken, total_count |-> 0, items |-> << >>,
           created |-> 0, updated |-> 0]
Response(status, key, text) ==
    [status |-> status, key |-> key, text |-> text, data |-> NoData]
NoResponse == Response(0, "none", "")

\* ---------------------------------------------------------------- state
VARIABLES
    users,          \* mongo.db.users, in insertion order
    books,          \* mongo.db.books: the ids of the documents
    reservations,   \* mongo.db.reservations, in insertion order
    now,            \* the clock, in hours
    req,            \* the request handled last
    resp,           \* the response to it
    current_user,   \* flask.g.current_user of that request
    handler_ran,    \* whether the route function wrapped by the middleware ran
    registered,     \* history: the registrations that answered 201
    procs,          \* SpecRace: the requests in flight
    deleted,        \* the ids of the books whose state is "deleted"
    store_up,       \* whether the MongoDB server can be reached
    held            \* the token that the client keeps from a login response

vars == <<users, books, reservations, now, req, resp, current_user,
          handler_ran, registered, procs, deleted, store_up, held>>

\* A request in flight: where its handler stands, the request, and the
\* handler's local variables.
Procs == {1, 2}
Proc(pc, op, header, book_id_str, body, user, email, r) ==
    [pc |-> pc, op |-> op, header |-> header, book_id_str |-> book_id_str,
     body |-> body, user |-> user, email |-> email, resp |-> r]

\* ------------------------------------------------------ collection access
Range(s) == {s[i] : i \in DOMAIN s}

\* collection.find_one(filter): the first matching document in natural
\* order, None when no document matches
FirstOr(hits, none) == IF hits = << >> THEN none ELSE Head(hits)

NeverFoundUser(U, email) == NoUser
find_user_by_email(U, email) ==
    FirstOr(SelectSeq(U, LAMBDA d : d.email = email), NoUser)

\* users.find_one({"_id": oid}, {"password": 0})
KeepPassword(d) == d
ProjectNoPassword(d) == [d EXCEPT !.password = NoHash]
find_user_by_id(U, oid) ==
    LET d == FirstOr(SelectSeq(U, LAMBDA x : x._id = oid), NoUser)
    IN IF d = NoUser THEN NoUser ELSE ProjectNoPassword(d)

\* insert_one(): the store assigns the next fresh _id
NextId(s) == Len(s) + 1

IdleProc ==
    Proc("idle", "none", [empty |-> TRUE, parts |-> << >>], AbsentIdStr,
         [present |-> FALSE, email |-> NoEmail, password |-> NoPassword],
         NoUser, NoEmail, NoResponse)

\* ------------------------------------------------------------------ Init
AdminEmail == Email("admin", "x.com")
AdminPassword == "pa"

\* The store holds one book and the admin account that the operators
\* provision (the API has no way to create an admin).
Init ==
    /\ users = << UserDoc(1, AdminEmail,
                          generate_password_hash(AdminPassword, 1),
                          NoHash, "admin") >>
    /\ books = {1}
    /\ reservations = << >>
    /\ now = 0
    /\ req = [op |-> "none"]
    /\ resp = NoResponse
    /\ current_user = NoUser
    /\ handler_ran = FALSE
    /\ registered = {}
    /\ procs = [p \in Procs |-> IdleProc]
    /\ deleted = {}
    /\ store_up = TRUE
    /\ held = NoToken

\* ------------------------------------------------- an unreachable store
\* A pymongo call raises ServerSelectionTimeoutError when no server can be
\* reached.  No handler of the auth and reservation routes catches it, so
\* handle_exception answers 500 with the text of the exception.
StoreUnreachable ==
    Response(HTTP_SERVER_ERROR, "error", "No servers found yet")
\* get_all_books catches ConnectionFailure and answers 503.
ServiceUnavailable ==
    Response(HTTP_SERVICE_UNAVAILABLE, "error",
             "The database service is temporarily unavailable.")

\* ------------------------------------------------------- POST /auth/register
\* A JSON body: absent/empty, or an object with optional email and password.
Body(present, email, password) ==
    [present |-> present, email |-> email, password |-> password]

RegisterValidateFieldsFirst(body) ==
    IF body.email = NoEmail \/ body.password = NoPassword
    THEN Response(HTTP_BAD_REQUEST, "message", "Email and password are required")
    ELSE IF ~body.present
    THEN Response(HTTP_BAD_REQUEST, "message", "Request body cannot be empty")
    ELSE IF ~EmailSyntaxValid(body.email)
    THEN Response(HTTP_BAD_REQUEST, "message", "The email address is not valid")
    ELSE NoResponse
\* The validation part of register_user: the response that ends the request,
\* or NoResponse when the request goes on to the database.
RegisterValidate(body) ==
    IF ~body.present
    THEN Response(HTTP_BAD_REQUEST, "message", "Request body cannot be empty")
    ELSE IF body.email = NoEmail \/ body.password = NoPassword
    THEN Response(HTTP_BAD_REQUEST, "message", "Email and password are required")
    ELSE IF ~EmailSyntaxValid(body.email)
    THEN Response(HTTP_BAD_REQUEST, "message", "The email address is not valid")
    ELSE NoResponse

RegisterConflict ==
    Response(HTTP_CONFLICT, "message", "Email is already registered")

RegisterCreated(id, email) ==
    [Response(HTTP_CREATED, "message", "User registered successfully")
       EXCEPT !.data.id = id, !.data.email = email]

\* The document that register_user inserts.
RegisterDoc(U, email, password, salt) ==
    UserDoc(NextId(U), email, generate_password_hash(password, salt),
            NoHash, "user")

register_user(body) ==
    /\ req' = [op |-> "register", body |-> body]
    /\ current_user' = NoUser
    /\ handler_ran' = FALSE
    /\ LET v == RegisterValidate(body)
           email == validate_email(body.email)
       IN IF v # NoResponse
          THEN /\ resp' = v
               /\ UNCHANGED <<users, registered>>
          ELSE IF ~store_up
          THEN /\ resp' = StoreUnreachable
               /\ UNCHANGED <<users, registered>>
          ELSE IF find_user_by_email(users, email) # NoUser
          THEN /\ resp' = RegisterConflict
               /\ UNCHANGED <<users, registered>>
          ELSE \E salt \in Salts :
               /\ Len(users) < MaxUsers
               /\ users' = Append(users,
                                  RegisterDoc(users, email, body.password, salt))
               /\ resp' = RegisterCreated(NextId(users), email)
               /\ registered' = registered \cup
                      {[raw |-> body.email, password |-> body.password,
                        id |-> NextId(users)]}
    /\ UNCHANGED <<books, deleted, store_up, held, reservations, now, procs>>

\* ---------------------------------------------------------- POST /auth/login
ServerSecret == "server"      \* current_app.config["JWT_SECRET_KEY"]

IssueShortLived(user, t) ==
    Token(ServerSecret, IdStr(user._id), t, t + 1, NoRole)
\* jwt.encode(payload, key, algorithm="HS256") of the payload of login_user
IssueToken(user, t) ==
    Token(ServerSecret, IdStr(user._id), t, t + TokenTTL, NoRole)

LoginBadRequest ==
    Response(HTTP_BAD_REQUEST, "error", "Email and password are required")
LoginUnauthorized ==
    Response(HTTP_UNAUTHORIZED, "error", "Invalid credentials")
\* user["password"] raises KeyError, which handle_exception turns into a 500
LoginKeyError == Response(HTTP_SERVER_ERROR, "error", "'password'")
LoginOk(token) == [Response(HTTP_OK, "none", "") EXCEPT !.data.token = token]

LoginResponse(body, U, t) ==
    IF ~body.present \/ body.email = NoEmail \/ body.password = NoPassword
    THEN LoginBadRequest
    ELSE LET user == find_user_by_email(U, body.email)
         IN IF user = NoUser THEN LoginUnauthorized
            ELSE IF user.password = NoHash THEN LoginKeyError
            ELSE IF ~check_password_hash(user.password, body.password)
            THEN LoginUnauthorized
            ELSE LoginOk(IssueToken(user, t))

LoginPromotesUser(body) ==
    /\ req' = [op |-> "login", body |-> body]
    /\ resp' = LoginResponse(body, users, now)
    /\ users' = [i \in DOMAIN users |->
                   IF users[i].email = body.email /\ resp'.status = HTTP_OK
                   THEN [users[i] EXCEPT !.role = "admin"] ELSE users[i]]
    /\ current_user' = NoUser
    /\ handler_ran' = FALSE
    /\ UNCHANGED <<books, deleted, store_up, held, reservations, now,
                   registered, procs>>
login_user(body) ==
    /\ req' = [op |-> "login", body |-> body]
    /\ LET r == LoginResponse(body, users, now)
       IN resp' = IF r # LoginBadRequest /\ ~store_up THEN StoreUnreachable
                  ELSE r
    /\ current_user' = NoUser
    /\ handler_ran' = FALSE
    /\ UNCHANGED <<users, books, deleted, store_up, held, reservations, now,
                   registered, procs>>

\* ------------------------------------------------------ scripts/seed_users.py
\* seed_users(users_to_seed): every entry whose email is not stored yet is
\* inserted as {"email", "password_hash"}, without role and without password.
SeedDoc(U, entry, salt) ==
    UserDoc(NextId(U), entry.email, NoHash,
            generate_password_hash(entry.password, salt), NoRole)

RECURSIVE SeedLoop(_, _, _)
SeedLoop(U, entries, salt) ==
    IF entries = << >> THEN U
    ELSE IF find_user_by_email(U, Head(entries).email) # NoUser
    THEN SeedLoop(U, Tail(entries), salt)
    ELSE SeedLoop(Append(U, SeedDoc(U, Head(entries), salt)),
                  Tail(entries), salt)

seed_users(users_to_seed) ==
    /\ \E salt \in Salts :
          users' = SeedLoop(users, users_to_seed, salt)
    /\ Len(users') <= MaxUsers
    /\ store_up
    /\ req' = [op |-> "seed_users", entries |-> users_to_seed]
    /\ resp' = NoResponse
    /\ current_user' = NoUser
    /\ handler_ran' = FALSE
    /\ UNCHANGED <<books, deleted, store_up, held, reservations, now,
                   registered, procs>>

\* ----------------------------------------------- scripts/seed_reservations.py
\* The title of a book document; the books of the model have distinct titles.
Title(n) == [title |-> n]
UnknownTitle == Title(0)
SeedReservation(title, email, state) ==
    [book_title |-> title, user_email |-> email, state |-> state]

\* book_id_map.get(book_title) and user_id_map.get(user_email): 0 for None.
\* The user map is a dict comprehension, so the last user of an email wins.
book_id_map(B, title) == IF title.title \in B THEN title.title ELSE 0
user_id_map(U, email) ==
    LET hits == SelectSeq(U, LAMBDA d : d.email = email)
    IN IF hits = << >> THEN 0 ELSE hits[Len(hits)]._id

\* update_one(filter, {"$set": doc}, upsert=True): the first document that
\* matches the filter is updated in place, and one is inserted when none
\* matches.
InsertAlways(R, book_id, user_id, state) ==
    Append(R, ReservationDoc(NextId(R), book_id, user_id, state))
update_one_upsert(R, book_id, user_id, state) ==
    LET hits == {i \in DOMAIN R : R[i].book_id = book_id
                                  /\ R[i].user_id = user_id}
        first == CHOOSE i \in hits : \A j \in hits : i <= j
    IN IF hits = {}
       THEN Append(R, ReservationDoc(NextId(R), book_id, user_id, state))
       ELSE [R EXCEPT ![first].state = state]

\* The loop over the seed entries: the collection and the two counters.
SeedResult(R, created, updated) ==
    [R |-> R, created |-> created, updated |-> updated]

RECURSIVE PopulationLoop(_, _, _, _)
PopulationLoop(acc, entries, B, U) ==
    IF entries = << >> THEN acc
    ELSE LET e == Head(entries)
             book_id == book_id_map(B, e.book_title)
             user_id == user_id_map(U, e.user_email)
             after == update_one_upsert(acc.R, book_id, user_id, e.state)
         IN IF book_id = 0 \/ user_id = 0
            THEN PopulationLoop(acc, Tail(entries), B, U)
            ELSE IF Len(after) > Len(acc.R)
            THEN PopulationLoop(SeedResult(after, acc.created + 1, acc.updated),
                                Tail(entries), B, U)
            ELSE PopulationLoop(SeedResult(after, acc.created, acc.updated + 1),
                                Tail(entries), B, U)

PopulationSummary(created, updated) ==
    [Response(0, "none", "Successfully created and updated reservations.")
       EXCEPT !.data.created = created, !.data.updated = updated]
PopulationWarning ==
    Response(0, "none", "Warning: Cannot create reservations.")

run_reservation_population(entries) ==
    /\ store_up
    /\ req' = [op |-> "seed_reservations", entries |-> entries]
    /\ IF books = {} \/ users = << >>
       THEN /\ resp' = PopulationWarning
            /\ UNCHANGED reservations
       ELSE LET out == PopulationLoop(SeedResult(reservations, 0, 0), entries,
                                      books, users)
            IN /\ Len(out.R) <= MaxReservations
               /\ reservations' = out.R
               /\ resp' = PopulationSummary(out.created, out.updated)
    /\ current_user' = NoUser
    /\ handler_ran' = FALSE
    /\ UNCHANGED <<users, books, deleted, store_up, held, now, registered,
                   procs>>

\* --------------------------------------------------- utils/decorators.py
\* The Authorization header: absent or empty, or the words that
\* str.split() yields.  A word is a scheme name or a token.
Word(w) == [word |-> w, token |-> NoToken]
TokenWord(t) == [word |-> "<jwt>", token |-> t]
Header(parts) == [empty |-> FALSE, parts |-> parts]
NoHeader == [empty |-> TRUE, parts |-> << >>]

DecodeIgnoringExpiry(token, key, t) ==
    IF ~token.wellformed \/ token.key # key THEN "invalid" ELSE "ok"
\* jwt.decode(token, key, algorithms=["HS256"]): the structure and the
\* signature are verified first, then exp when the claim is present.
jwt_decode(token, key, t) ==
    IF ~token.wellformed \/ token.key # key THEN "invalid"
    ELSE IF token.exp # NoTime /\ token.exp <= t THEN "expired"
    ELSE "ok"

Unauthorized(text) == Response(HTTP_UNAUTHORIZED, "error", text)

\* require_jwt: the 401 that ends the request and no user, or NoResponse
\* and the user to attach to g.current_user.
AuthResult(r, user) == [resp |-> r, user |-> user]

RequireJwtSubFirst(h, U, t) ==
    IF h.empty
    THEN AuthResult(Unauthorized("Authorization header missing"), NoUser)
    ELSE IF Len(h.parts) # 2 \/ Lower(h.parts[1].word) # "bearer"
    THEN AuthResult(Unauthorized("Malformed Authorization header"), NoUser)
    ELSE LET token == h.parts[2].token
             verdict == jwt_decode(token, ServerSecret, t)
         IN IF token.sub \in {AbsentIdStr, EmptyIdStr}
            THEN AuthResult(Unauthorized("Token missing subject (sub) claim"),
                            NoUser)
            ELSE IF verdict = "expired"
            THEN AuthResult(Unauthorized("Token has expired"), NoUser)
            ELSE IF verdict = "invalid"
            THEN AuthResult(Unauthorized("Invalid token. Please log in again."),
                            NoUser)
            ELSE IF ~ObjectIdValid(token.sub)
            THEN AuthResult(Unauthorized("Invalid user id in token"), NoUser)
            ELSE IF ~store_up THEN AuthResult(StoreUnreachable, NoUser)
            ELSE LET user == find_user_by_id(U, ObjectId(token.sub))
                 IN IF user = NoUser
                    THEN AuthResult(Unauthorized("User not found"), NoUser)
                    ELSE AuthResult(NoResponse, user)

require_jwt(h, U, t) ==
    IF h.empty
    THEN AuthResult(Unauthorized("Authorization header missing"), NoUser)
    ELSE IF Len(h.parts) # 2 \/ Lower(h.parts[1].word) # "bearer"
    THEN AuthResult(Unauthorized("Malformed Authorization header"), NoUser)
    ELSE LET token == h.parts[2].token
             verdict == jwt_decode(token, ServerSecret, t)
         IN IF verdict = "expired"
            THEN AuthResult(Unauthorized("Token has expired"), NoUser)
            ELSE IF verdict = "invalid"
            THEN AuthResult(Unauthorized("Invalid token. Please log in again."),
                            NoUser)
            ELSE IF token.sub \in {AbsentIdStr, EmptyIdStr}
            THEN AuthResult(Unauthorized("Token missing subject (sub) claim"),
                            NoUser)
            ELSE IF ~ObjectIdValid(token.sub)
            THEN AuthResult(Unauthorized("Invalid user id in token"), NoUser)
            ELSE IF ~store_up THEN AuthResult(StoreUnreachable, NoUser)
            ELSE LET user == find_user_by_id(U, ObjectId(token.sub))
                 IN IF user = NoUser
                    THEN AuthResult(Unauthorized("User not found"), NoUser)
                    ELSE AuthResult(NoResponse, user)

\* require_admin: require_jwt first, then abort(403) unless the role of
\* g.current_user is "admin".
Forbidden == Response(HTTP_FORBIDDEN, "error", "Admin privileges required.")

RequireAdminRoleFirst(h, U, t) ==
    LET auth == require_jwt(h, U, t)
    IN IF auth.user.role # "admin" THEN AuthResult(Forbidden, NoUser)
       ELSE auth
require_admin(h, U, t) ==
    LET auth == require_jwt(h, U, t)
    IN IF auth.resp # NoResponse THEN auth
       ELSE IF auth.user.role # "admin" THEN AuthResult(Forbidden, auth.user)
       ELSE auth

\* ----------------------------------------- POST /books/<id>/reservations
find_book(B, oid) == oid \in B

FindReservedOnly(R, book_id, user_id) ==
    FirstOr(SelectSeq(R, LAMBDA d : d.book_id = book_id
                                    /\ d.user_id = user_id
                                    /\ d.state = "reserved"),
            NoReservation)
AlwaysNoReservation(R, book_id, user_id) == NoReservation
find_reservation(R, book_id, user_id) ==
    FirstOr(SelectSeq(R, LAMBDA d : d.book_id = book_id
                                    /\ d.user_id = user_id),
            NoReservation)

InvalidBookId == Response(HTTP_BAD_REQUEST, "error", "Invalid Book ID")
BookNotFound == Response(HTTP_NOT_FOUND, "error", "Book not found")
AlreadyReserved ==
    Response(HTTP_CONFLICT, "error", "You have already reserved this book")
ReservationCreatedFails(doc) ==
    Response(HTTP_SERVER_ERROR, "error", "Could not build url")
ReservationCreated(doc) ==
    [Response(HTTP_CREATED, "none", "")
       EXCEPT !.data.id = doc._id, !.data.state = doc.state,
              !.data.user_id = doc.user_id, !.data.book_id = doc.book_id]

CreateValidateWithoutLookup(book_id_str, B) ==
    IF ~ObjectIdValid(book_id_str) THEN InvalidBookId ELSE NoResponse
\* The checks of create_reservation that precede the duplicate check.
CreateValidate(book_id_str, B) ==
    IF ~ObjectIdValid(book_id_str) THEN InvalidBookId
    ELSE IF ~find_book(B, ObjectId(book_id_str)) THEN BookNotFound
    ELSE NoResponse

NewReservationForFirstUser(R, book_id, user_id) ==
    ReservationDoc(NextId(R), book_id, 1, "reserved")
NewReservation(R, book_id, user_id) ==
    ReservationDoc(NextId(R), book_id, user_id, "reserved")

\* The JSON body of the request, which the handler never reads: absent, or
\* an object that names a user id.
CreateBody(user_id) == [user_id |-> user_id]
NoCreateBody == CreateBody(0)

create_reservation(h, book_id_str, data) ==
    /\ req' = [op |-> "create_reservation", header |-> h,
               book_id_str |-> book_id_str, data |-> data]
    /\ LET auth == require_jwt(h, users, now)
           v == CreateValidate(book_id_str, books)
           book_id == ObjectId(book_id_str)
       IN IF auth.resp # NoResponse
          THEN /\ resp' = auth.resp
               /\ current_user' = NoUser
               /\ handler_ran' = FALSE
               /\ UNCHANGED reservations
          ELSE /\ current_user' = auth.user
               /\ handler_ran' = TRUE
               /\ IF v # NoResponse
                  THEN /\ resp' = v
                       /\ UNCHANGED reservations
                  ELSE IF find_reservation(reservations, book_id,
                                           auth.user._id) # NoReservation
                  THEN /\ resp' = AlreadyReserved
                       /\ UNCHANGED reservations
                  ELSE /\ Len(reservations) < MaxReservations
                       /\ reservations' = Append(reservations,
                             NewReservation(reservations, book_id,
                                            auth.user._id))
                       /\ resp' = ReservationCreated(
                             NewReservation(reservations, book_id,
                                            auth.user._id))
    /\ UNCHANGED <<users, books, deleted, store_up, held, now, registered,
                   procs>>

\* ------------------------------------------ GET /books/<id>/reservations
\* A query parameter: absent, the text of an integer, or other text.
QueryInt(n) == [kind |-> "int", val |-> n]
QueryAbsent == [kind |-> "absent", val |-> 0]
QueryText == [kind |-> "text", val |-> 0]
DefaultOffset == 0
DefaultLimit == 20

\* request.args.get(name, default) followed by int()
ArgIsInt(arg) == arg.kind # "text"
ArgInt(arg, default) == IF arg.kind = "absent" THEN default ELSE arg.val

NotIntegers ==
    Response(HTTP_BAD_REQUEST, "error",
             "Query parameters 'limit' and 'offset' must be integers.")
Negative ==
    Response(HTTP_BAD_REQUEST, "error",
             "Query parameters 'limit' and 'offset' cannot be negative.")
\* the 404 of the listing is a text/plain body
ListBookNotFound == Response(HTTP_NOT_FOUND, "none", "book not found")
\* MongoDB rejects the stage {"$limit": 0}: the limit must be positive
ListLimitError ==
    Response(HTTP_SERVER_ERROR, "error", "the limit must be positive")

SubSeqFrom(s, offset, limit) ==
    SubSeq(s, offset + 1, IF offset + limit < Len(s) THEN offset + limit
                          ELSE Len(s))

\* count_documents({"book_id": book_id})
count_reservations_for_book(R, book_id) ==
    Len(SelectSeq(R, LAMBDA d : d.book_id = book_id))

\* $match, $lookup + $unwind (a reservation without its user is dropped),
\* $skip, $limit
fetch_reservations_for_book(R, U, book_id, offset, limit) ==
    LET matched == SelectSeq(R, LAMBDA d : d.book_id = book_id)
        joined == SelectSeq(matched,
                            LAMBDA d : \E i \in DOMAIN U : U[i]._id = d.user_id)
    IN SubSeqFrom(joined, offset, limit)

ListItem(r) == [id |-> IdStr(r._id), state |-> r.state,
                book_id |-> IdStr(r.book_id)]
ListOk(total, rows) ==
    [Response(HTTP_OK, "none", "")
       EXCEPT !.data.total_count = total,
              !.data.items = [i \in DOMAIN rows |-> ListItem(rows[i])]]

ListResponse(book_id_str, offset_arg, limit_arg, B, R, U) ==
    LET offset == ArgInt(offset_arg, DefaultOffset)
        limit == ArgInt(limit_arg, DefaultLimit)
    IN IF ~ArgIsInt(offset_arg) \/ ~ArgIsInt(limit_arg) THEN NotIntegers
       ELSE IF offset < 0 \/ limit < 0 THEN Negative
       ELSE IF ~ObjectIdValid(book_id_str) THEN InvalidBookId
       ELSE IF ~find_book(B, ObjectId(book_id_str)) THEN ListBookNotFound
       ELSE IF limit = 0 THEN ListLimitError
       ELSE ListOk(count_reservations_for_book(R, ObjectId(book_id_str)),
                   fetch_reservations_for_book(R, U, ObjectId(book_id_str),
                                               offset, limit))

get_reservations_for_book_id(h, book_id_str, offset_arg, limit_arg) ==
    /\ req' = [op |-> "list_reservations", header |-> h,
               book_id_str |-> book_id_str, offset |-> offset_arg,
               limit |-> limit_arg]
    /\ LET auth == require_admin(h, users, now)
       IN IF auth.resp # NoResponse
          THEN /\ resp' = auth.resp
               /\ current_user' = auth.user
               /\ handler_ran' = FALSE
          ELSE /\ current_user' = auth.user
               /\ handler_ran' = TRUE
               /\ resp' = ListResponse(book_id_str, offset_arg, limit_arg,
                                       books, reservations, users)
    /\ UNCHANGED <<users, books, deleted, store_up, held, reservations, now,
                   registered, procs>>

\* ------------------------------------------------------------ GET /books
NoBooksFound == Response(HTTP_NOT_FOUND, "error", "No books found")
BooksOk(n) == [Response(HTTP_OK, "none", "") EXCEPT !.data.total_count = n]

\* fetch_active_books: the books whose state is not "deleted"
fetch_active_books(B, D) == B \ D

get_all_books ==
    /\ req' = [op |-> "get_all_books"]
    /\ resp' = IF ~store_up THEN ServiceUnavailable
               ELSE IF fetch_active_books(books, deleted) = {}
               THEN NoBooksFound
               ELSE BooksOk(Cardinality(fetch_active_books(books, deleted)))
    /\ current_user' = NoUser
    /\ handler_ran' = FALSE
    /\ UNCHANGED <<users, books, deleted, store_up, held, reservations, now,
                   registered, procs>>

\* ------------------------------------- GET and DELETE /books/<book_id>
\* The X-API-KEY header ("" when absent) and the key the server is
\* configured with.
NoApiKey == ""
ExpectedApiKey == "secret"
ApiKeys == {NoApiKey, ExpectedApiKey, "guess"}

ApiKeyMissing == Response(HTTP_UNAUTHORIZED, "error", "API key is missing.")
ApiKeyInvalid == Response(HTTP_UNAUTHORIZED, "error", "Invalid API key.")
require_api_key(key) ==
    IF key = NoApiKey THEN ApiKeyMissing
    ELSE IF key # ExpectedApiKey THEN ApiKeyInvalid
    ELSE NoResponse

InvalidBookIdFormat ==
    Response(HTTP_BAD_REQUEST, "error", "Invalid book ID format")
InvalidBookIDFormat ==
    Response(HTTP_BAD_REQUEST, "error", "Invalid Book ID format")
BookOk(oid) == [Response(HTTP_OK, "none", "") EXCEPT !.data.id = oid]
BookDeleted == Response(HTTP_NO_CONTENT, "none", "")

\* find_one({"_id": obj_id, "state": {"$ne": "deleted"}})
find_active_book(B, D, oid) == oid \in B \ D

get_book(book_id_str) ==
    /\ req' = [op |-> "get_book", book_id_str |-> book_id_str]
    /\ resp' = IF ~ObjectIdValid(book_id_str) THEN InvalidBookIdFormat
               ELSE IF ~store_up THEN StoreUnreachable
               ELSE IF ~find_active_book(books, deleted,
                                         ObjectId(book_id_str))
               THEN BookNotFound
               ELSE BookOk(ObjectId(book_id_str))
    /\ current_user' = NoUser
    /\ handler_ran' = FALSE
    /\ UNCHANGED <<users, books, deleted, store_up, held, reservations, now,
                   registered, procs>>

\* delete_book_by_id: find_one_and_update with the filter of a book that is
\* not deleted and {"$set": {"state": "deleted"}}
delete_book(key, book_id_str) ==
    /\ req' = [op |-> "delete_book", key |-> key,
               book_id_str |-> book_id_str]
    /\ LET denied == require_api_key(key)
           oid == ObjectId(book_id_str)
       IN IF denied # NoResponse
          THEN /\ resp' = denied
               /\ handler_ran' = FALSE
               /\ UNCHANGED deleted
          ELSE /\ handler_ran' = TRUE
               /\ IF ~ObjectIdValid(book_id_str)
                  THEN /\ resp' = InvalidBookIDFormat
                       /\ UNCHANGED deleted
                  ELSE IF ~store_up
                  THEN /\ resp' = StoreUnreachable
                       /\ UNCHANGED deleted
                  ELSE IF ~find_active_book(books, deleted, oid)
                  THEN /\ resp' = BookNotFound
                       /\ UNCHANGED deleted
                  ELSE /\ resp' = BookDeleted
                       /\ deleted' = deleted \cup {oid}
    /\ current_user' = NoUser
    /\ UNCHANGED <<users, books, store_up, held, reservations, now,
                   registered, procs>>

\* ------------------------------------------------- the MongoDB server
StoreFails ==
    /\ store_up
    /\ store_up' = FALSE
    /\ UNCHANGED <<users, books, deleted, held, reservations, now, req, resp,
                   current_user, handler_ran, registered, procs>>

StoreRecovers ==
    /\ ~store_up
    /\ store_up' = TRUE
    /\ UNCHANGED <<users, books, deleted, held, reservations, now, req, resp,
                   current_user, handler_ran, registered, procs>>

\* ----------------------------------------------------------------- clock
Tick ==
    /\ now + TickHours <= MaxTime
    /\ now' = now + TickHours
    /\ UNCHANGED <<users, books, deleted, store_up, held, reservations, req,
                   resp, current_user, handler_ran, registered, procs>>

\* ---------------------------------------------------------------- inputs
RawEmails == {NoEmail, Email("a", "x.com"), Email("a", "X.COM"),
              Email("a", "xcom")}
Passwords == {NoPassword, "p1", "p2"}
Bodies == {Body(FALSE, NoEmail, NoPassword)} \cup
          {Body(TRUE, e, p) : e \in RawEmails, p \in Passwords}
LoginBodies == Bodies \cup
          {Body(TRUE, e, AdminPassword) : e \in {AdminEmail, Email("s", "x.com")}}

SeedEntry(e, p) == [email |-> e, password |-> p]
SeedLists == {<< SeedEntry(Email("s", "x.com"), "p1") >>,
              << SeedEntry(Email("a", "x.com"), "p1"),
                 SeedEntry(Email("s", "x.com"), "p1") >>}

Bearer(t) == Header(<< Word("Bearer"), TokenWord(t) >>)

\* Spec: the headers of well-behaved clients and two rejected ones
CoreTokens == {Token(ServerSecret, IdStr(n), NoTime, TokenTTL, NoRole) :
                  n \in 1..MaxUsers}
              \cup {Token("other", IdStr(1), NoTime, TokenTTL, NoRole)}
CoreHeaders == {NoHeader} \cup {Bearer(t) : t \in CoreTokens}

\* SpecAuth: every combination of header shape, signing key and claims
Subs == {AbsentIdStr, EmptyIdStr, MalformedIdStr} \cup
        {IdStr(n) : n \in 1..MaxUsers}
Exps == {NoTime, TokenTTL}
Keys == {ServerSecret, "other"}
Tokens == {GarbageToken} \cup
          {Token(k, s, NoTime, e, NoRole) : k \in Keys, s \in Subs, e \in Exps}
AToken == Token(ServerSecret, IdStr(1), NoTime, NoTime, NoRole)
Headers ==
    {NoHeader, Header(<< >>), Header(<< Word("Bearer") >>),
     Header(<< Word("Token"), TokenWord(AToken) >>),
     Header(<< Word("bearer"), TokenWord(AToken) >>),
     Header(<< Word("BEARER"), TokenWord(AToken) >>),
     Header(<< Word("Bearer"), TokenWord(AToken), TokenWord(AToken) >>)}
    \cup {Bearer(t) : t \in Tokens}

BookIdStrs == {IdStr(1), IdStr(2), MalformedIdStr}
QueryArgPairs == {<<QueryAbsent, QueryAbsent>>, <<QueryInt(1), QueryInt(1)>>,
                  <<QueryInt(0 - 1), QueryAbsent>>}

Next ==
    \/ \E b \in Bodies : register_user(b)
    \/ \E b \in LoginBodies : login_user(b)
    \/ \E l \in SeedLists : seed_users(l)
    \/ \E h \in CoreHeaders, b \in BookIdStrs :
          create_reservation(h, b, NoCreateBody)
    \/ \E h \in CoreHeaders, q \in QueryArgPairs :
          get_reservations_for_book_id(h, IdStr(1), q[1], q[2])
    \/ Tick

Spec == Init /\ [][Next]_vars

\* The middleware under every header, on a store that two accounts join.
NextAuth ==
    \/ register_user(Body(TRUE, Email("a", "X.COM"), "p1"))
    \/ seed_users(<< SeedEntry(Email("s", "x.com"), "p1") >>)
    \/ \E h \in Headers : create_reservation(h, IdStr(1), NoCreateBody)
    \/ \E h \in Headers :
          get_reservations_for_book_id(h, IdStr(1), QueryAbsent, QueryAbsent)
    \/ Tick

SpecAuth == Init /\ [][NextAuth]_vars

\* A client logs in, keeps the token of the response for a while, and then
\* presents it as "Bearer <token>" to the two protected routes.
TokenLoginBodies == {Body(TRUE, AdminEmail, AdminPassword),
                     Body(TRUE, Email("a", "x.com"), "p1"),
                     Body(TRUE, Email("a", "x.com"), "p2")}
CreateBodies == {NoCreateBody} \cup {CreateBody(n) : n \in 1..MaxUsers}
HoldsToken == req.op = "login" /\ resp.status = HTTP_OK

NextToken ==
    \/ register_user(Body(TRUE, Email("a", "x.com"), "p1"))
    \/ \E b \in TokenLoginBodies : login_user(b)
    \/ HoldsToken /\ \E b \in BookIdStrs, d \in CreateBodies :
          create_reservation(Bearer(resp.data.token), b, d)
    \/ HoldsToken /\ get_reservations_for_book_id(Bearer(resp.data.token),
                                                  IdStr(1), QueryAbsent,
                                                  QueryAbsent)
    \/ Tick

SpecToken == Init /\ [][NextToken]_vars

\* The listing on stores that were filled directly, as the fixtures of
\* tests/test_reservations.py fill them: an admin and a user, one book, and
\* reservations of which some name a user id that no user document has.
OrphanUserId == MaxUsers + 1
TestUser == UserDoc(2, Email("a", "x.com"), generate_password_hash("p1", 1),
                    NoHash, "user")
ListStores ==
    {<< >>,
     << ReservationDoc(1, 1, 2, "active"),
        ReservationDoc(2, 1, OrphanUserId, "pending") >>,
     << ReservationDoc(1, 1, OrphanUserId, "pending"),
        ReservationDoc(2, 1, 2, "active"),
        ReservationDoc(3, 1, 1, "reserved") >>,
     << ReservationDoc(1, 2, 2, "reserved"),
        ReservationDoc(2, 1, 2, "reserved"),
        ReservationDoc(3, 1, 1, "reserved") >>}

InitList ==
    /\ users = << UserDoc(1, AdminEmail,
                          generate_password_hash(AdminPassword, 1),
                          NoHash, "admin"), TestUser >>
    /\ books = {1}
    /\ reservations \in ListStores
    /\ now = 0
    /\ req = [op |-> "none"]
    /\ resp = NoResponse
    /\ current_user = NoUser
    /\ handler_ran = FALSE
    /\ registered = {}
    /\ procs = [p \in Procs |-> IdleProc]
    /\ deleted = {}
    /\ store_up = TRUE
    /\ held = NoToken

QueryArgs == {QueryAbsent, QueryInt(0), QueryInt(1), QueryInt(2),
              QueryInt(0 - 1), QueryText}
ListHeaders == {NoHeader} \cup
    {Bearer(Token(ServerSecret, IdStr(n), NoTime, TokenTTL, NoRole)) :
        n \in 1..2}

NextList ==
    \/ \E h \in ListHeaders, b \in BookIdStrs, o \in QueryArgs, l \in QueryArgs :
          get_reservations_for_book_id(h, b, o, l)
    \/ \E h \in ListHeaders : create_reservation(h, IdStr(1), NoCreateBody)

SpecList == InitList /\ [][NextList]_vars

\* A client session: the client keeps the token of a login response and
\* presents it later, while other requests are served and time passes.
KeepToken ==
    /\ HoldsToken
    /\ held' = resp.data.token
    /\ UNCHANGED <<users, books, deleted, store_up, reservations, now, req,
                   resp, current_user, handler_ran, registered, procs>>

Advance(hours) ==
    /\ now + hours <= MaxTime
    /\ now' = now + hours
    /\ UNCHANGED <<users, books, deleted, store_up, held, reservations, req,
                   resp, current_user, handler_ran, registered, procs>>

NextSession ==
    \/ register_user(Body(TRUE, Email("a", "x.com"), "p1"))
    \/ \E b \in TokenLoginBodies : login_user(b)
    \/ KeepToken
    \/ held # NoToken /\ \E b \in BookIdStrs :
          create_reservation(Bearer(held), b, NoCreateBody)
    \/ held # NoToken /\ get_reservations_for_book_id(Bearer(held), IdStr(1),
                                                      QueryAbsent, QueryAbsent)
    \/ Advance(SessionHours)

SpecSession == Init /\ [][NextSession]_vars

\* The API next to the two seeding scripts.
SeedReservationLists ==
    {<< SeedReservation(Title(1), Email("s", "x.com"), "cancelled") >>,
     << SeedReservation(Title(1), Email("a", "x.com"), "reserved"),
        SeedReservation(UnknownTitle, Email("a", "x.com"), "reserved"),
        SeedReservation(Title(1), Email("ghost", "x.com"), "reserved") >>,
     << SeedReservation(Title(1), AdminEmail, "reserved"),
        SeedReservation(Title(1), AdminEmail, "cancelled") >>}

NextSeed ==
    \/ register_user(Body(TRUE, Email("a", "x.com"), "p1"))
    \/ \E l \in SeedLists : seed_users(l)
    \/ \E l \in SeedReservationLists : run_reservation_population(l)
    \/ \E h \in CoreHeaders, b \in BookIdStrs :
          create_reservation(h, b, NoCreateBody)

SpecSeed == Init /\ [][NextSeed]_vars

\* The book endpoints next to the reservation endpoint.
NextBooks ==
    \/ \E l \in SeedLists : seed_users(l)
    \/ \E k \in ApiKeys, b \in BookIdStrs : delete_book(k, b)
    \/ \E b \in BookIdStrs : get_book(b)
    \/ get_all_books
    \/ \E h \in CoreHeaders, b \in BookIdStrs :
          create_reservation(h, b, NoCreateBody)

SpecBooks == Init /\ [][NextBooks]_vars

\* Every endpoint while the MongoDB server comes and goes.
NextDown ==
    \/ StoreFails
    \/ StoreRecovers
    \/ \E b \in Bodies : register_user(b)
    \/ \E b \in TokenLoginBodies \cup {Body(FALSE, NoEmail, NoPassword)} :
          login_user(b)
    \/ \E h \in CoreHeaders, b \in BookIdStrs :
          create_reservation(h, b, NoCreateBody)
    \/ \E h \in CoreHeaders :
          get_reservations_for_book_id(h, IdStr(1), QueryAbsent, QueryAbsent)
    \/ get_all_books

SpecDown == Init /\ [][NextDown]_vars

\* ------------------------------------------------- concurrent requests
\* Each step below is one database call of a handler (with the code that
\* follows it up to the next call); steps of different requests interleave.
Done(p, r) == [procs EXCEPT ![p].pc = "done", ![p].resp = r]

StartCreate(p, h, book_id_str) ==
    /\ procs[p].pc = "idle"
    /\ procs' = [procs EXCEPT ![p] =
                   Proc("jwt", "create_reservation", h, book_id_str,
                        IdleProc.body, NoUser, NoEmail, NoResponse)]
    /\ UNCHANGED <<users, books, deleted, store_up, held, reservations, now,
                   req, resp, current_user, handler_ran, registered>>

\* decorators.py: users.find_one({"_id": oid}, {"password": 0})
RaceRequireJwt(p) ==
    /\ procs[p].pc = "jwt"
    /\ LET auth == require_jwt(procs[p].header, users, now)
       IN procs' = IF auth.resp # NoResponse THEN Done(p, auth.resp)
                   ELSE [procs EXCEPT ![p].pc = "book", ![p].user = auth.user]
    /\ UNCHANGED <<users, books, deleted, store_up, held, reservations, now,
                   req, resp, current_user, handler_ran, registered>>

\* reservation_routes.py: books.find_one({"_id": book_id})
RaceFindBook(p) ==
    /\ procs[p].pc = "book"
    /\ LET v == CreateValidate(procs[p].book_id_str, books)
       IN procs' = IF v # NoResponse THEN Done(p, v)
                   ELSE [procs EXCEPT ![p].pc = "check"]
    /\ UNCHANGED <<users, books, deleted, store_up, held, reservations, now,
                   req, resp, current_user, handler_ran, registered>>

\* reservation_routes.py: reservations.find_one({"book_id", "user_id"})
RaceFindReservation(p) ==
    /\ procs[p].pc = "check"
    /\ procs' = IF find_reservation(reservations,
                                    ObjectId(procs[p].book_id_str),
                                    procs[p].user._id) # NoReservation
                THEN Done(p, AlreadyReserved)
                ELSE [procs EXCEPT ![p].pc = "insert"]
    /\ UNCHANGED <<users, books, deleted, store_up, held, reservations, now,
                   req, resp, current_user, handler_ran, registered>>

\* reservation_routes.py: reservations.insert_one(reservation_doc)
RaceInsertReservation(p) ==
    /\ procs[p].pc = "insert"
    /\ Len(reservations) < MaxReservations
    /\ LET doc == NewReservation(reservations, ObjectId(procs[p].book_id_str),
                                 procs[p].user._id)
       IN /\ reservations' = Append(reservations, doc)
          /\ procs' = Done(p, ReservationCreated(doc))
    /\ UNCHANGED <<users, books, deleted, store_up, held, now, req, resp,
                   current_user, handler_ran, registered>>

\* auth_routes.py: the validation of the payload, which reads no collection
StartRegister(p, body) ==
    /\ procs[p].pc = "idle"
    /\ LET v == RegisterValidate(body)
           started == Proc("lookup", "register", IdleProc.header, AbsentIdStr,
                           body, NoUser, validate_email(body.email),
                           NoResponse)
       IN procs' = [procs EXCEPT ![p] =
                      IF v # NoResponse
                      THEN [started EXCEPT !.pc = "done", !.resp = v,
                                           !.email = NoEmail]
                      ELSE started]
    /\ UNCHANGED <<users, books, deleted, store_up, held, reservations, now,
                   req, resp, current_user, handler_ran, registered>>

\* auth_routes.py: users.find_one({"email": email})
RaceFindUser(p) ==
    /\ procs[p].pc = "lookup"
    /\ procs' = IF find_user_by_email(users, procs[p].email) # NoUser
                THEN Done(p, RegisterConflict)
                ELSE [procs EXCEPT ![p].pc = "insert_user"]
    /\ UNCHANGED <<users, books, deleted, store_up, held, reservations, now,
                   req, resp, current_user, handler_ran, registered>>

\* auth_routes.py: users.insert_one({"email", "password", "role"})
RaceInsertUser(p) ==
    /\ procs[p].pc = "insert_user"
    /\ Len(users) < MaxUsers
    /\ \E salt \in Salts :
          users' = Append(users, RegisterDoc(users, procs[p].email,
                                             procs[p].body.password, salt))
    /\ procs' = Done(p, RegisterCreated(NextId(users), procs[p].email))
    /\ registered' = registered \cup
          {[raw |-> procs[p].body.email, password |-> procs[p].body.password,
            id |-> NextId(users)]}
    /\ UNCHANGED <<books, deleted, store_up, held, reservations, now, req,
                   resp, current_user, handler_ran>>

\* the response has been sent; the worker takes the next request
Retire(p) ==
    /\ procs[p].pc = "done"
    /\ procs' = [procs EXCEPT ![p] = IdleProc]
    /\ UNCHANGED <<users, books, deleted, store_up, held, reservations, now,
                   req, resp, current_user, handler_ran, registered>>

RaceBodies == {Body(TRUE, Email("a", "x.com"), "p1"),
               Body(TRUE, Email("a", "X.COM"), "p2"),
               Body(TRUE, Email("a", "xcom"), "p1")}
RaceHeaders == {NoHeader} \cup
    {Bearer(Token(ServerSecret, IdStr(n), NoTime, TokenTTL, NoRole)) :
        n \in 1..MaxUsers}

NextRace ==
    \/ \E p \in Procs, h \in RaceHeaders, b \in {IdStr(1), IdStr(2)} :
          StartCreate(p, h, b)
    \/ \E p \in Procs : RaceRequireJwt(p)
    \/ \E p \in Procs : RaceFindBook(p)
    \/ \E p \in Procs : RaceFindReservation(p)
    \/ \E p \in Procs : RaceInsertReservation(p)
    \/ \E p \in Procs, b \in RaceBodies : StartRegister(p, b)
    \/ \E p \in Procs : RaceFindUser(p)
    \/ \E p \in Procs : RaceInsertUser(p)
    \/ \E p \in Procs : Retire(p)

SpecRace == Init /\ [][NextRace]_vars

\* ================================================================ claims
\* What the claims say of a request, stated without the handlers.
IsCreateStep ==
    /\ req'.op = "create_reservation"
    /\ create_reservation(req'.header, req'.book_id_str, req'.data)
IsListStep ==
    /\ req'.op = "list_reservations"
    /\ get_reservations_for_book_id(req'.header, req'.book_id_str,
                                    req'.offset, req'.limit)
IsRegisterStep == req'.op = "register" /\ register_user(req'.body)
IsLoginStep == req'.op = "login" /\ login_user(req'.body)

UserIds(U) == {U[i]._id : i \in DOMAIN U}
StoredUser(U, u) == CHOOSE d \in Range(U) : d._id = u
BearerSchemes == {"Bearer", "bearer", "BEARER"}
HeaderPresent(h) == ~h.empty
HeaderIsBearer(h) == Len(h.parts) = 2 /\ h.parts[1].word \in BearerSchemes
TokenOf(h) == IF Len(h.parts) >= 2 THEN h.parts[2].token ELSE NoToken
SignedByServer(t) == t.wellformed /\ t.key = ServerSecret
Elapsed(t, time) == t.exp # NoTime /\ t.exp <= time
AuthenticatesAs(h, U, time, u) ==
    /\ HeaderPresent(h)
    /\ HeaderIsBearer(h)
    /\ SignedByServer(TokenOf(h))
    /\ ~Elapsed(TokenOf(h), time)
    /\ TokenOf(h).sub = IdStr(u)
    /\ u \in UserIds(U)
Authenticates(h, U, time) == \E u \in UserIds(U) : AuthenticatesAs(h, U, time, u)

HasReservation(R, book, u) ==
    \E i \in DOMAIN R : R[i].book_id = book /\ R[i].user_id = u
AtMostOnePerPair(R) ==
    \A i, j \in DOMAIN R :
        R[i].book_id = R[j].book_id /\ R[i].user_id = R[j].user_id => i = j

\* C1: when requests run one after the other, no (book, user) pair ever has
\* two reservations, and a create by a user who already holds a reservation
\* for the book answers 409 "You have already reserved this book" and leaves
\* the reservations collection as it was.
C1_SequentialCreateKeepsPairsUnique ==
    [][ /\ AtMostOnePerPair(reservations')
        /\ IsCreateStep =>
             \A u \in UserIds(users) :
                /\ AuthenticatesAs(req'.header, users, now, u)
                /\ req'.book_id_str.kind = "oid"
                /\ HasReservation(reservations, req'.book_id_str.oid, u)
                => /\ resp'.status = 409
                   /\ resp'.text = "You have already reserved this book"
                   /\ reservations' = reservations ]_vars

C1_Witness ==
    /\ req.op = "create_reservation"
    /\ resp.status = 409
    /\ \E u \in UserIds(users) :
          /\ TokenOf(req.header).sub = IdStr(u)
          /\ HasReservation(reservations, req.book_id_str.oid, u)

\* C2: at most one reservation exists per (book, user) pair in every state,
\* also when the find_one and the insert_one of concurrent create requests
\* interleave.
C2_PairsUniqueUnderInterleaving == AtMostOnePerPair(reservations)

\* C3: on the admin-only listing, a request that does not authenticate is
\* answered 401 (never 403), one that authenticates as a user whose role is
\* not "admin" (a missing role included) is answered 403, and the route
\* function runs only for an authenticated admin.
C3_AdminOnlyListing ==
    [][ IsListStep =>
          /\ ~Authenticates(req'.header, users, now) => resp'.status = 401
          /\ \A u \in UserIds(users) :
                AuthenticatesAs(req'.header, users, now, u) =>
                   /\ StoredUser(users, u).role # "admin" =>
                         resp'.status = 403 /\ ~handler_ran'
                   /\ StoredUser(users, u).role = "admin" => handler_ran'
          /\ handler_ran' =>
                \E u \in UserIds(users) :
                   /\ AuthenticatesAs(req'.header, users, now, u)
                   /\ StoredUser(users, u).role = "admin" ]_vars

C3_Witness ==
    /\ req.op = "list_reservations"
    /\ resp.status = 403
    /\ ~handler_ran
    /\ \E u \in UserIds(users) :
          /\ TokenOf(req.header).sub = IdStr(u)
          /\ StoredUser(users, u).role = NoRole

\* C4: the route function behind require_jwt runs only when the header is
\* "Bearer <token>", the token verifies, its sub is the id of a stored user,
\* and then g.current_user is that user's document without the password.
C4_HandlerRunsOnlyForResolvedUser ==
    [][ (IsCreateStep \/ IsListStep) /\ handler_ran' =>
          \E u \in UserIds(users) :
             /\ AuthenticatesAs(req'.header, users, now, u)
             /\ current_user'._id = u
             /\ current_user'.password = NoHash
             /\ current_user' = [StoredUser(users, u) EXCEPT !.password = NoHash]
      ]_vars

C4_Witness ==
    /\ req.op = "create_reservation"
    /\ handler_ran
    /\ \E u \in UserIds(users) :
          /\ current_user._id = u
          /\ StoredUser(users, u).password # NoHash

\* C5: the route function runs only for a token that is signed with the
\* server's secret and carries an expiry that has not elapsed.
C5_RunsOnlyWithUnexpiredExpiry ==
    [][ (IsCreateStep \/ IsListStep) /\ handler_ran' =>
          /\ SignedByServer(TokenOf(req'.header))
          /\ TokenOf(req'.header).exp # NoTime
          /\ now < TokenOf(req'.header).exp ]_vars

\* The checks of the authentication middleware, each evaluated on its own.
AuthCheckFails(i, h, U, time) ==
    CASE i = 1 -> ~HeaderPresent(h)
      [] i = 2 -> ~HeaderIsBearer(h)
      [] i = 3 -> ~SignedByServer(TokenOf(h)) \/ Elapsed(TokenOf(h), time)
      [] i = 4 -> TokenOf(h).sub \in {AbsentIdStr, EmptyIdStr}
      [] i = 5 -> TokenOf(h).sub.kind # "oid"
      [] i = 6 -> TokenOf(h).sub.oid \notin UserIds(U)
AuthCheckMessage(i, h) ==
    CASE i = 1 -> "Authorization header missing"
      [] i = 2 -> "Malformed Authorization header"
      [] i = 3 -> IF SignedByServer(TokenOf(h)) THEN "Token has expired"
                  ELSE "Invalid token. Please log in again."
      [] i = 4 -> "Token missing subject (sub) claim"
      [] i = 5 -> "Invalid user id in token"
      [] i = 6 -> "User not found"
FailingChecks(h, U, time) == {i \in 1..6 : AuthCheckFails(i, h, U, time)}
FirstFailing(h, U, time) ==
    CHOOSE i \in FailingChecks(h, U, time) :
        \A j \in FailingChecks(h, U, time) : i <= j

\* C6: a request that fails one or more checks of require_jwt is answered
\* 401 with the message of the first failing check in the order header
\* present, Bearer form, token verification, sub present, sub parses, user
\* exists.
C6_FirstFailingCheckDecides ==
    [][ (IsCreateStep \/ IsListStep)
        /\ FailingChecks(req'.header, users, now) # {} =>
          /\ resp'.status = 401
          /\ resp'.key = "error"
          /\ resp'.text =
               AuthCheckMessage(FirstFailing(req'.header, users, now),
                                req'.header)
          /\ ~handler_ran' ]_vars

C6_Witness ==
    /\ req.op = "create_reservation"
    /\ resp.text = "Invalid token. Please log in again."
    /\ TokenOf(req.header).key # ServerSecret
    /\ Elapsed(TokenOf(req.header), now)
    /\ TokenOf(req.header).sub = AbsentIdStr

\* The normal form of an address: its domain in lower case.
InNormalForm(e) == e.domain \in {"x.com"}
SameAddress(e1, e2) ==
    e1.local = e2.local /\ Lower(e1.domain) = Lower(e2.domain)
CarriesCredentials(b) ==
    b.present /\ b.email # NoEmail /\ b.password # NoPassword

\* C7: once a registration for an address has answered 201, every later
\* registration for an email that normalizes to that address answers 409
\* "Email is already registered", whatever password it carries, and leaves
\* the users collection (so the stored hash and role) as it was.
C7_DuplicateRegistrationRejected ==
    [][ IsRegisterStep /\ CarriesCredentials(req'.body)
        /\ (\E r \in registered : SameAddress(r.raw, req'.body.email)) =>
          /\ resp'.status = 409
          /\ resp'.text = "Email is already registered"
          /\ users' = users ]_vars

C7_Witness ==
    /\ req.op = "register"
    /\ resp.status = 409
    /\ \E r \in registered :
          /\ SameAddress(r.raw, req.body.email)
          /\ r.password # req.body.password

\* C8: no two documents of the users collection have the same email, also
\* when the find_one and the insert_one of concurrent registrations
\* interleave.
C8_EmailsUniqueUnderInterleaving ==
    \A i, j \in DOMAIN users : users[i].email = users[j].email => i = j

\* C9: every email that a registration stored is in normal form, no two
\* successful registrations are for the same address, and a registration
\* whose raw email differs from an earlier successful one but normalizes to
\* the same address answers 409.
C9_NormalizedBeforeLookupAndStorage ==
    [][ /\ \A r \in registered' :
              /\ InNormalForm(users'[r.id].email)
              /\ SameAddress(users'[r.id].email, r.raw)
        /\ \A r1, r2 \in registered' :
              SameAddress(r1.raw, r2.raw) => r1 = r2
        /\ IsRegisterStep /\ CarriesCredentials(req'.body)
           /\ (\E r \in registered : /\ r.raw # req'.body.email
                                     /\ SameAddress(r.raw, req'.body.email))
           => resp'.status = 409 /\ registered' = registered ]_vars

C9_Witness ==
    /\ req.op = "register"
    /\ resp.status = 409
    /\ \E r \in registered :
          /\ r.raw # req.body.email
          /\ SameAddress(r.raw, req.body.email)
          /\ ~InNormalForm(r.raw)
          /\ InNormalForm(users[r.id].email)

\* The password from which the stored hash of a user document was made.
HashedPassword(d) ==
    IF d.password # NoHash THEN d.password.digest ELSE d.password_hash.digest

\* C10: login answers 200 with a token exactly when a user document with
\* the email exists and the password is the one whose hash is stored; 400
\* when the body, the email or the password is missing; 401 otherwise.
C10_LoginStatus ==
    [][ IsLoginStep =>
          LET b == req'.body
              good == \E d \in Range(users) :
                         d.email = b.email /\ HashedPassword(d) = b.password
          IN /\ ~CarriesCredentials(b) => resp'.status = 400
             /\ CarriesCredentials(b) /\ good =>
                   /\ resp'.status = 200
                   /\ resp'.data.token # NoToken
             /\ CarriesCredentials(b) /\ ~good => resp'.status = 401 ]_vars

\* What a login request names: an account that is absent, or an account
\* that exists together with a password that is not its own.
NamesNoAccount(b, U) == ~\E d \in Range(U) : d.email = b.email
NamesAccountWithWrongPassword(b, U) ==
    /\ \E d \in Range(U) : d.email = b.email
    /\ \A d \in Range(U) : d.email = b.email => HashedPassword(d) # b.password

\* C11: a login that names an existing user with a wrong password gets the
\* very response that a login naming an email without a user record gets:
\* 401 with the error "Invalid credentials" (both requests carry a non-empty
\* email and password).
C11_LoginHidesAccountExistence ==
    [][ IsLoginStep /\ CarriesCredentials(req'.body)
        /\ NamesAccountWithWrongPassword(req'.body, users) =>
          /\ resp'.status = 401
          /\ resp'.key = "error"
          /\ resp'.text = "Invalid credentials"
          /\ \A b \in LoginBodies :
                CarriesCredentials(b) /\ NamesNoAccount(b, users) =>
                   resp' = LoginResponse(b, users, now) ]_vars

\* The user that a login request names.
LoginUserId(b, U) == (CHOOSE d \in Range(U) : d.email = b.email)._id

\* C12: the token of a successful login for the user with id s carries sub
\* s and the expiry issue time + 24 h; presented to require_jwt at a time
\* strictly before that expiry it resolves to the user with id s, and at a
\* time strictly after it the request is answered 401 "Token has expired".
C12_TokenRoundTrip ==
    [][ /\ IsLoginStep /\ resp'.status = 200 =>
             /\ resp'.data.token.sub = IdStr(LoginUserId(req'.body, users))
             /\ resp'.data.token.iat = now
             /\ resp'.data.token.exp = now + TokenTTL
        /\ HoldsToken /\ (IsCreateStep \/ IsListStep)
           /\ req'.header = Bearer(resp.data.token) =>
             LET s == LoginUserId(req.body, users)
                 expiry == resp.data.token.iat + TokenTTL
             IN /\ now < expiry =>
                     /\ resp'.status # 401
                     /\ current_user'._id = s
                /\ now > expiry =>
                     /\ resp'.status = 401
                     /\ resp'.text = "Token has expired"
                     /\ ~handler_ran' ]_vars

C12_Witness ==
    /\ req.op = "create_reservation"
    /\ TokenOf(req.header).iat # NoTime
    /\ now > TokenOf(req.header).iat + TokenTTL
    /\ resp.text = "Token has expired"

\* C13: the token of a successful login carries the id of the user as sub
\* and the stored role of the user as role ("user" for a registered user).
C13_TokenCarriesSubAndRole ==
    [][ IsLoginStep /\ resp'.status = 200 =>
          LET d == StoredUser(users, LoginUserId(req'.body, users))
          IN /\ resp'.data.token.sub = IdStr(d._id)
             /\ resp'.data.token.role = d.role ]_vars

\* C14: a create-reservation that answers 201 has appended exactly one
\* document to the reservations collection: its book_id is the requested
\* book, which exists, its user_id is the id of the user that the caller's
\* token resolves to, whatever user id the request body names, and its state
\* is "reserved"; the response reports the state "reserved".
C14_CreateInsertsCallersReservation ==
    [][ IsCreateStep /\ resp'.status = 201 =>
          \E u \in UserIds(users) :
             /\ AuthenticatesAs(req'.header, users, now, u)
             /\ req'.book_id_str.kind = "oid"
             /\ req'.book_id_str.oid \in books
             /\ Len(reservations') = Len(reservations) + 1
             /\ SubSeq(reservations', 1, Len(reservations)) = reservations
             /\ LET doc == reservations'[Len(reservations')]
                IN /\ doc.book_id = req'.book_id_str.oid
                   /\ doc.user_id = u
                   /\ doc.state = "reserved"
                   /\ resp'.data.id = doc._id
             /\ resp'.data.state = "reserved" ]_vars

C14_Witness ==
    /\ req.op = "create_reservation"
    /\ resp.status = 201
    /\ req.data.user_id \in UserIds(users)
    /\ TokenOf(req.header).sub # IdStr(req.data.user_id)
    /\ reservations[Len(reservations)].user_id = TokenOf(req.header).sub.oid

\* C15: a create-reservation of an authenticated caller answers 400
\* "Invalid Book ID" for a malformed book id, else 404 "Book not found" when
\* no such book exists, else 409 when the caller already holds a reservation
\* for the book, else 201; a request that does not authenticate answers 401
\* whatever the book id is, and the route function with its book and
\* reservation lookups does not run.
C15_CreateDecisionOrder ==
    [][ IsCreateStep =>
          LET b == req'.book_id_str
          IN /\ ~Authenticates(req'.header, users, now) =>
                   /\ resp'.status = 401
                   /\ ~handler_ran'
                   /\ reservations' = reservations
             /\ \A u \in UserIds(users) :
                   AuthenticatesAs(req'.header, users, now, u) =>
                      /\ b.kind # "oid" =>
                            /\ resp'.status = 400
                            /\ resp'.text = "Invalid Book ID"
                      /\ b.kind = "oid" /\ b.oid \notin books =>
                            /\ resp'.status = 404
                            /\ resp'.text = "Book not found"
                      /\ b.kind = "oid" /\ b.oid \in books
                         /\ HasReservation(reservations, b.oid, u) =>
                            resp'.status = 409
                      /\ b.kind = "oid" /\ b.oid \in books
                         /\ ~HasReservation(reservations, b.oid, u) =>
                            resp'.status = 201 ]_vars

C15_Witness ==
    /\ req.op = "create_reservation"
    /\ ~Authenticates(req.header, users, now)
    /\ req.book_id_str.kind # "oid"
    /\ resp.status = 401
    /\ ~handler_ran

\* One document was appended to a collection and nothing else changed in it.
InsertedOne(before, after) ==
    /\ Len(after) = Len(before) + 1
    /\ SubSeq(after, 1, Len(before)) = before

AdminAsks(h, U, time) ==
    \E u \in UserIds(U) :
        AuthenticatesAs(h, U, time, u) /\ StoredUser(U, u).role = "admin"
\* The reservations of a book, and those of them whose user exists.
ReservationsOf(R, book) == SelectSeq(R, LAMBDA d : d.book_id = book)
WithUser(R, U) == SelectSeq(R, LAMBDA d : d.user_id \in UserIds(U))
HasOrphan(R, U, book) ==
    \E i \in DOMAIN R : R[i].book_id = book /\ R[i].user_id \notin UserIds(U)

\* C17: a listing by an admin for an existing book of which some
\* reservations name a user id that the users collection does not have
\* answers 200; its items are exactly the reservations of the book whose
\* user exists, and total_count is the number of those.
C17_OrphansLeftOutOfItemsAndCount ==
    [][ IsListStep /\ AdminAsks(req'.header, users, now)
        /\ req'.book_id_str.kind = "oid" /\ req'.book_id_str.oid \in books
        /\ req'.offset = QueryAbsent /\ req'.limit = QueryAbsent
        /\ HasOrphan(reservations, users, req'.book_id_str.oid) =>
          LET kept == WithUser(ReservationsOf(reservations,
                                              req'.book_id_str.oid), users)
          IN /\ resp'.status = 200
             /\ Len(resp'.data.items) = Len(kept)
             /\ \A i \in DOMAIN kept :
                   resp'.data.items[i].id = IdStr(kept[i]._id)
             /\ resp'.data.total_count = Len(kept) ]_vars

\* C18: a listing by an admin with a malformed book id answers 400
\* "Invalid Book ID" whatever offset and limit are, negative and non-integer
\* values included: the book id is validated before the pagination.
C18_BookIdValidatedBeforePagination ==
    [][ IsListStep /\ AdminAsks(req'.header, users, now)
        /\ req'.book_id_str.kind # "oid" =>
          /\ resp'.status = 400
          /\ resp'.text = "Invalid Book ID" ]_vars

\* What the claims call an acceptable and an unacceptable query parameter.
IsNonNegativeInt(arg) ==
    arg.kind = "absent" \/ (arg.kind = "int" /\ arg.val >= 0)
PaginationErrors ==
    {"Query parameters 'limit' and 'offset' must be integers.",
     "Query parameters 'limit' and 'offset' cannot be negative."}

\* C19: a listing by an admin answers 400 whenever offset or limit is not an
\* integer or is negative; when both are integers >= 0 (0 included) the
\* request is not refused for its pagination: it gets the answer that the
\* book id alone decides (400, 404 or 200); an absent offset counts as 0 and
\* an absent limit as 20.
C19_PaginationValidation ==
    [][ IsListStep /\ AdminAsks(req'.header, users, now) =>
          LET ok == IsNonNegativeInt(req'.offset) /\ IsNonNegativeInt(req'.limit)
              b == req'.book_id_str
          IN /\ ~ok => resp'.status = 400
             /\ ok => /\ resp'.text \notin PaginationErrors
                      /\ b.kind # "oid" => resp'.status = 400
                      /\ b.kind = "oid" /\ b.oid \notin books =>
                            resp'.status = 404
                      /\ b.kind = "oid" /\ b.oid \in books =>
                            resp'.status = 200
             /\ resp' = ListResponse(
                   b,
                   IF req'.offset = QueryAbsent THEN QueryInt(0)
                   ELSE req'.offset,
                   IF req'.limit = QueryAbsent THEN QueryInt(20)
                   ELSE req'.limit,
                   books, reservations, users) ]_vars

\* C20: every response with an error status, of register, login,
\* create-reservation, list-reservations and of the middleware in front of
\* them, is a JSON body with a message text, the 404 of the listing for a
\* book that does not exist included.
C20_ErrorsAreJsonWithMessage ==
    [][ (IsRegisterStep \/ IsLoginStep \/ IsCreateStep \/ IsListStep)
        /\ resp'.status >= 400 =>
          /\ resp'.key \in {"error", "message"}
          /\ resp'.text # "" ]_vars

\* The requests that cannot be answered without the store: a registration
\* that passes validation, a login with credentials, a listing of the books,
\* and a protected request whose token verifies and names a user id.
NeedsStore ==
    \/ req'.op = "register" /\ RegisterValidate(req'.body) = NoResponse
    \/ req'.op = "login" /\ CarriesCredentials(req'.body)
    \/ req'.op = "get_all_books"
    \/ /\ req'.op \in {"create_reservation", "list_reservations"}
       /\ HeaderPresent(req'.header) /\ HeaderIsBearer(req'.header)
       /\ SignedByServer(TokenOf(req'.header))
       /\ ~Elapsed(TokenOf(req'.header), now)
       /\ TokenOf(req'.header).sub.kind = "oid"
IsGetAllBooksStep == req'.op = "get_all_books" /\ get_all_books

\* C21: while the store is unreachable, every request that needs it is
\* answered 503 Service Unavailable, never 500 and never a success, and
\* leaves the collections as they were.
C21_UnreachableStoreGives503 ==
    [][ (IsRegisterStep \/ IsLoginStep \/ IsCreateStep \/ IsListStep
         \/ IsGetAllBooksStep)
        /\ ~store_up /\ NeedsStore =>
          /\ resp'.status = 503
          /\ users' = users /\ reservations' = reservations ]_vars

\* C22: a protected request that carries a token kept from a login response
\* passes authentication at every time before issue time + 24 h, whatever
\* requests were served since the login: it is never answered 401 and
\* resolves to the user that the token was issued for.
C22_TokenWorksUntilExpiry ==
    [][ (IsCreateStep \/ IsListStep)
        /\ held # NoToken /\ req'.header = Bearer(held)
        /\ now < held.iat + TokenTTL =>
          /\ resp'.status # 401
          /\ current_user'._id = held.sub.oid ]_vars

C22_Witness ==
    /\ req.op = "create_reservation"
    /\ held # NoToken /\ req.header = Bearer(held)
    /\ held.iat < now /\ now < held.iat + TokenTTL
    /\ resp.status = 409
    /\ Len(users) > 1

\* A collection after a request holds every document it held before,
\* unchanged and in place; documents may have been added at the end.
ExtendedOnly(before, after) ==
    /\ Len(after) >= Len(before)
    /\ SubSeq(after, 1, Len(before)) = before

\* C23: register, login, create-reservation and list-reservations never
\* modify or remove a user document (so the role of a user stays what it
\* was) nor a reservation (so its state stays "reserved"); what they add is
\* a user with role "user" or a reservation in state "reserved"; login and
\* list-reservations change no collection.
C23_StoresAppendOnly ==
    [][ IsRegisterStep \/ IsLoginStep \/ IsCreateStep \/ IsListStep =>
          /\ ExtendedOnly(users, users')
          /\ ExtendedOnly(reservations, reservations')
          /\ books' = books /\ deleted' = deleted
          /\ \A i \in DOMAIN users' \ DOMAIN users : users'[i].role = "user"
          /\ \A i \in DOMAIN reservations' \ DOMAIN reservations :
                reservations'[i].state = "reserved"
          /\ req'.op \in {"login", "list_reservations"} =>
                users' = users /\ reservations' = reservations ]_vars

C23_Witness ==
    /\ req.op = "login"
    /\ resp.status = 200
    /\ \E d \in Range(users) : d.email = req.body.email /\ d.role = "user"
    /\ reservations # << >>

\* A stored password value that is the plaintext itself: no salt was mixed in.
Plaintext(p) == [salt |-> 0, digest |-> p]

\* C24: a registration that answers 201 has inserted exactly one user; its
\* email is the normal form of the email of the request, its password value
\* is not the plaintext and verifies against it, its role is "user"; the
\* response carries the new id and the stored email and nothing else.
C24_RegistrationStoresHashAndRole ==
    [][ IsRegisterStep /\ resp'.status = 201 =>
          /\ InsertedOne(users, users')
          /\ LET d == users'[Len(users')]
             IN /\ InNormalForm(d.email)
                /\ SameAddress(d.email, req'.body.email)
                /\ d.password # NoHash
                /\ d.password # Plaintext(req'.body.password)
                /\ check_password_hash(d.password, req'.body.password)
                /\ d.role = "user"
                /\ resp'.data = [NoData EXCEPT !.id = d._id,
                                               !.email = d.email] ]_vars

C24_Witness ==
    /\ req.op = "register"
    /\ resp.status = 201
    /\ ~InNormalForm(req.body.email)
    /\ users[Len(users)].email # req.body.email
    /\ resp.data.email = users[Len(users)].email

\* The addresses among the inputs that are not of the form local@domain.tld.
InvalidEmails == {Email("a", "xcom")}
MissingField(b) == b.email = NoEmail \/ b.password = NoPassword

ArgValue(arg, default) == IF arg.kind = "absent" THEN default ELSE arg.val
Min(a, b) == IF a < b THEN a ELSE b

\* C26: for an admin, an existing book b and integers offset >= 0 and
\* limit >= 0, the listing answers 200 with the elements offset+1 ..
\* offset+limit of the sequence of b's reservations whose user exists, in
\* insertion order: at most limit items, each of book b; and the pages at
\* offsets 0, limit, 2*limit, ... of the unchanged store return every such
\* reservation exactly once.
C26_PageIsSliceOfKeptReservations ==
    [][ IsListStep /\ AdminAsks(req'.header, users, now)
        /\ req'.book_id_str.kind = "oid" /\ req'.book_id_str.oid \in books
        /\ IsNonNegativeInt(req'.offset) /\ IsNonNegativeInt(req'.limit) =>
          LET b == req'.book_id_str.oid
              kept == WithUser(ReservationsOf(reservations, b), users)
              o == ArgValue(req'.offset, 0)
              l == ArgValue(req'.limit, 20)
              last == Min(o + l, Len(kept))
              items == resp'.data.items
              Page(k) == ListResponse(req'.book_id_str, QueryInt(k * l),
                                      QueryInt(l), books, reservations,
                                      users).data.items
          IN /\ resp'.status = 200
             /\ Len(items) = IF last > o THEN last - o ELSE 0
             /\ Len(items) <= l
             /\ \A k \in DOMAIN items :
                   /\ items[k].id = IdStr(kept[o + k]._id)
                   /\ items[k].book_id = IdStr(b)
             /\ l >= 1 =>
                   \A i \in DOMAIN kept :
                      LET k == (i - 1) \div l
                          pos == ((i - 1) % l) + 1
                      IN /\ pos \in DOMAIN Page(k)
                         /\ Page(k)[pos].id = IdStr(kept[i]._id) ]_vars

IsPopulationStep ==
    /\ req'.op = "seed_reservations"
    /\ run_reservation_population(req'.entries)

\* What the claims say of a seed entry, stated on the collections.
BookOfTitle(B, t) == {b \in B : Title(b) = t}
UserOfEmail(U, e) == {d._id : d \in {x \in Range(U) : x.email = e}}
Resolves(entry, B, U) ==
    BookOfTitle(B, entry.book_title) # {} /\ UserOfEmail(U, entry.user_email) # {}
PairCount(R, book, u) ==
    Cardinality({i \in DOMAIN R : R[i].book_id = book /\ R[i].user_id = u})
ResolvedCount(entries, B, U) ==
    Cardinality({i \in DOMAIN entries : Resolves(entries[i], B, U)})

C28_LoginAfterRegistration ==
    [][ IsLoginStep
        /\ (\E r \in registered : /\ r.raw = req'.body.email
                                  /\ r.password = req'.body.password) =>
          /\ resp'.status = HTTP_OK
          /\ resp'.data.token # NoToken ]_vars

\* The reservations of a (book, user) pair whose state is not "reserved".
HasOnlyOtherStates(R, book, u) ==
    /\ HasReservation(R, book, u)
    /\ \A i \in DOMAIN R :
          R[i].book_id = book /\ R[i].user_id = u => R[i].state # "reserved"

\* C29: the duplicate check of create-reservation does not look at the state:
\* a create by a user whose only reservation for the book has a state other
\* than "reserved" (such as the "cancelled" that the seeding script writes)
\* answers 409 and inserts nothing.
C29_DuplicateCheckIgnoresState ==
    [][ IsCreateStep =>
          \A u \in UserIds(users) :
             /\ AuthenticatesAs(req'.header, users, now, u)
             /\ req'.book_id_str.kind = "oid"
             /\ HasOnlyOtherStates(reservations, req'.book_id_str.oid, u)
             => /\ resp'.status = HTTP_CONFLICT
                /\ reservations' = reservations ]_vars

C29_Witness ==
    /\ req.op = "create_reservation"
    /\ resp.status = HTTP_CONFLICT
    /\ \E u \in UserIds(users) :
          /\ TokenOf(req.header).sub = IdStr(u)
          /\ HasOnlyOtherStates(reservations, req.book_id_str.oid, u)
          /\ \E i \in DOMAIN reservations : reservations[i].state = "cancelled"

\* C30: a create-reservation request for a book whose state is "deleted" (a
\* book that DELETE /books/{id} soft-deleted, and that GET /books/{id}
\* answers 404 for) is answered 404 "Book not found" and inserts nothing.
C30_NoReservationForDeletedBook ==
    [][ IsCreateStep
        /\ handler_ran'
        /\ req'.book_id_str.kind = "oid"
        /\ req'.book_id_str.oid \in deleted =>
          /\ resp' = BookNotFound
          /\ reservations' = reservations ]_vars
====
